---- MODULE Spec2Model ----
(***************************************************************************)
(* Model of the filter-bubble analyzers of the Algorithmic Accountability  *)
(* Translator: backend/ml/diversity_metrics.py (DiversityAnalyzer),        *)
(* backend/ml/echo_chamber.py (EchoChamberDetector), the bias pipeline     *)
(* backend/nlp/bias_detection.py (BiasDetector) and the scrapers' token    *)
(* bucket backend/scrapers/rate_limiter.py (RateLimiter).                  *)
(*                                                                         *)
(* Python floats are modelled as exact rationals <<numerator, denominator>>*)
(* in lowest terms with a positive denominator, so equality of two values  *)
(* is equality of the pairs.  math.log2 is modelled by a table that is     *)
(* exactly additive (Log2(a*b) = Log2(a) + Log2(b)), in hundredths of a   *)
(* bit.                                                                    *)
(***************************************************************************)
EXTENDS Integers, Sequences, FiniteSets, TLC

-----------------------------------------------------------------------------
(* Bounds of the model. *)

\* The lengths of content_items, topic_labels and stance_labels of a
\* calculate_metrics call sum to at most MaxBatch.
MaxBatch == 6
\* content_texts (and content_stances) have at most MaxTexts entries.
MaxTexts == 5
\* compare_personas receives at most MaxPersonas personas.
MaxPersonas == 3
\* An analyzer serves at most MaxCalls calls, one after the other.
MaxCalls == 3
\* analyze_batch receives at most MaxBatchTexts texts.
MaxBatchTexts == 2
\* NumThreads threads make their first call on one analyzer at the same time.
NumThreads == 3
\* NumCallers tasks call acquire on one RateLimiter.
NumCallers == 2
\* Each task calls acquire at most MaxAcquires times.
MaxAcquires == 2
\* The clock runs up to MaxTicks steps beyond one day.
MaxTicks == 3

-----------------------------------------------------------------------------
(* The state. *)

VARIABLES
    call,             \* the call in progress: the operation and its arguments
    result,           \* NoResult, or what the call returned
    embedding_model,  \* self._embedding_model of the analyzer called
    model_loads,      \* SentenceTransformer(...) constructions so far
    encode_calls,     \* model.encode calls so far
    kmeans_fits,      \* KMeans.fit_predict calls so far
    history,          \* the calls that returned, in order: the call, the value
                      \* returned and the labels its clustering assigned
    environment,      \* what can be imported and loaded where the program runs
    bias_detector,    \* the BiasDetector: whether constructed, and its two
                      \* classifier handles
    threads,          \* the threads calling one analyzer at the same time: the
                      \* statement each is at and the handles it has used; or
                      \* the tasks calling acquire on the RateLimiter
    rate_limiter,     \* the RateLimiter: its config and its fields
    now               \* time.time(), in seconds since the program started

vars == <<call, result, embedding_model, model_loads, encode_calls, kmeans_fits,
          history, environment, bias_detector, threads, rate_limiter, now>>

\* The state of the RateLimiter and its clock.
limiterVars == <<rate_limiter, now>>

\* No RateLimiter yet.
NoLimiter == [constructed |-> FALSE]

\* No RateLimiter is in use and no time passes.
NoRateLimiter == rate_limiter = NoLimiter /\ now = 0

\* Everything imports and loads.
DefaultEnvironment == [transformers |-> TRUE, models |-> TRUE]

\* No BiasDetector() has been attempted.
NotConstructed ==
    [state |-> "absent", emotion_classifier |-> "None", zero_shot_classifier |-> "None"]

\* A single caller.
NoThreads == <<>>

-----------------------------------------------------------------------------
(* Float arithmetic, as exact rationals. *)

RECURSIVE GCD(_, _)
GCD(a, b) == IF b = 0 THEN a ELSE GCD(b, a % b)

Abs(x) == IF x < 0 THEN -x ELSE x

\* The float n/d.
Rat(n, d) ==
    LET g == GCD(Abs(n), Abs(d))
    IN  IF d < 0 THEN <<(-n) \div g, (-d) \div g>> ELSE <<n \div g, d \div g>>

Zero == Rat(0, 1)
One == Rat(1, 1)
Half == Rat(1, 2)

RAdd(x, y) == Rat(x[1] * y[2] + y[1] * x[2], x[2] * y[2])

RNeg(x) == <<-x[1], x[2]>>

RSub(x, y) == RAdd(x, RNeg(y))

RMul(x, y) == Rat(x[1] * y[1], x[2] * y[2])

\* x / y, for y # 0.
RDiv(x, y) == RMul(x, Rat(y[2], y[1]))

RLe(x, y) == x[1] * y[2] <= y[1] * x[2]

RLt(x, y) == x[1] * y[2] < y[1] * x[2]

RGe(x, y) == RLe(y, x)

RGt(x, y) == RLt(y, x)

RMin(x, y) == IF RLe(x, y) THEN x ELSE y

RAbs(x) == <<Abs(x[1]), x[2]>>

InUnit(x) == RLe(Zero, x) /\ RLe(x, One)

\* math.log2(n) for n in 1..20, in hundredths of a bit; the table is additive
\* over products, as log2 is.
Log2Table ==
    <<0, 100, 158, 200, 232, 258, 281, 300, 316, 332,
      346, 358, 370, 381, 390, 400, 409, 416, 425, 432>>
Log2(n) == Log2Table[n]
\* The float 1 (one bit) in the unit of Log2.
OneBit == Log2(2)

-----------------------------------------------------------------------------
(* Python collections. *)

Range(s) == {s[i] : i \in DOMAIN s}

\* collections.Counter(s)[v]
Count(s, v) == Cardinality({i \in DOMAIN s : s[i] = v})

RECURSIVE IntSum(_, _)
\* sum(f[x] for x in S)
IntSum(S, f) ==
    IF S = {} THEN 0
    ELSE LET x == CHOOSE y \in S : TRUE
         IN  f[x] + IntSum(S \ {x}, f)

\* The sequences over S of length 0..n that are sorted by the order `rank`
\* (one representative of each multiset: the analyzers that take them only
\* count their entries).
SortedSeqs(S, rank, n) ==
    UNION {{s \in [1..k -> S] : \A i \in 1..(k - 1) : rank[s[i]] <= rank[s[i + 1]]}
           : k \in 0..n}

-----------------------------------------------------------------------------
(* The embedding capability (SentenceTransformer.encode) and sklearn's      *)
(* cosine_similarity.  A text is one of three texts, or the empty string;   *)
(* encode maps a text to a vector, here of one dimension.                   *)

NoText == ""
Texts == {"a", "n", "c"}

\* model.encode([t])[0]
Embedding(t) == CASE t = "a" -> 1 [] t = "n" -> -1 [] t = "c" -> 5

\* model.encode(texts)
Encode(texts) == [i \in DOMAIN texts |-> Embedding(texts[i])]

\* cosine_similarity(embeddings)[i][j]
CosineSimilarity(u, v) == Rat(u * v, Abs(u) * Abs(v))

\* The pairs (i, j) of "for i in range(n): for j in range(i + 1, n)".
UpperPairs(n) == {p \in (1..n) \X (1..n) : p[1] < p[2]}

RECURSIVE RSumValues(_, _)
\* The sum of weight[v] over the values v of V.
RSumValues(V, weight) ==
    IF V = {} THEN Zero
    ELSE LET v == CHOOSE w \in V : TRUE
         IN  RAdd(weight[v], RSumValues(V \ {v}, weight))

\* The sum of sim[p] over the pairs p of P: each value sim takes, times the
\* number of pairs that take it.
RSumSet(P, sim) ==
    LET values == {sim[p] : p \in P}
        weight == [v \in values |->
                      RMul(v, Rat(Cardinality({p \in P : sim[p] = v}), 1))]
    IN  RSumValues(values, weight)

\* total_sim / count of the pairs P, or `dflt` when there is no pair.
MeanSimilarity(embeddings, P, dflt) ==
    LET sim == [p \in P |-> CosineSimilarity(embeddings[p[1]], embeddings[p[2]])]
    IN  IF Cardinality(P) > 0
        THEN RDiv(RSumSet(P, sim), Rat(Cardinality(P), 1))
        ELSE dflt

-----------------------------------------------------------------------------
(* DiversityAnalyzer (backend/ml/diversity_metrics.py). *)

RECURSIVE EntropySum(_, _, _)
\* total * entropy, for the values `vals` still to be counted in `s`:
\* entropy -= p * log2(p) with p = count / total.
EntropySum(vals, s, total) ==
    IF vals = {} THEN 0
    ELSE LET v == CHOOSE x \in vals : TRUE
             c == Count(s, v)
         IN  c * (Log2(total) - Log2(c)) + EntropySum(vals \ {v}, s, total)

\* The entropy of the frequency distribution of s (s non-empty), in the unit of Log2.
Entropy(s) == Rat(EntropySum(Range(s), s, Len(s)), Len(s))

\* The topic entropy left in bits, not divided by max_entropy.
calculate_topic_diversity_raw(topics) ==
    IF topics = <<>> THEN Zero ELSE RDiv(Entropy(topics), Rat(OneBit, 1))

calculate_topic_diversity(topics) ==
    IF topics = <<>> THEN Zero
    ELSE LET counter == Range(topics)
             entropy == Entropy(topics)
             max_entropy == IF Cardinality(counter) > 1
                            THEN Log2(Cardinality(counter)) ELSE OneBit
         IN  IF max_entropy > 0 THEN RDiv(entropy, Rat(max_entropy, 1)) ELSE Zero

calculate_stance_diversity(stances) ==
    IF stances = <<>> THEN Zero
    ELSE LET favor == Count(stances, "favor")
             against == Count(stances, "against")
             neutral == Count(stances, "neutral")
             total == favor + against + neutral
         IN  IF total = 0 THEN Zero
             ELSE LET ideal == Rat(total, 3)
                      deviation ==
                          RDiv(RAdd(RAdd(RAbs(RSub(Rat(favor, 1), ideal)),
                                         RAbs(RSub(Rat(against, 1), ideal))),
                                    RAbs(RSub(Rat(neutral, 1), ideal))),
                               Rat(2 * total, 1))
                  IN  RSub(One, deviation)

\* The cap of the source-diversity normaliser.
SourceCap == 20

Min(a, b) == IF a <= b THEN a ELSE b

Max(a, b) == IF a >= b THEN a ELSE b

calculate_source_diversity(sources) ==
    IF sources = <<>> THEN Zero
    ELSE LET entropy == Entropy(sources)
             max_entropy == Log2(Min(Len(sources), SourceCap))
         IN  IF max_entropy > 0
             THEN RMin(One, RDiv(entropy, Rat(max_entropy, 1)))
             ELSE Zero

\* texts[:100]
EncodeLimit == 100

calculate_semantic_diversity(texts) ==
    IF Len(texts) < 2 THEN Zero
    ELSE LET embeddings == Encode(SubSeq(texts, 1, Min(Len(texts), EncodeLimit)))
             avg_similarity ==
                 MeanSimilarity(embeddings, UpperPairs(Len(embeddings)), One)
         IN  RSub(One, avg_similarity)

\* One week in seconds.
MaxRange == 604800

SeqMin(s) == CHOOSE x \in Range(s) : \A y \in Range(s) : x <= y

SeqMax(s) == CHOOSE x \in Range(s) : \A y \in Range(s) : x >= y

calculate_temporal_diversity(timestamps) ==
    IF Len(timestamps) < 2 THEN Zero
    ELSE LET earliest == SeqMin(timestamps)
             latest == SeqMax(timestamps)
             time_range == latest - earliest
         IN  RMin(One, Rat(time_range, MaxRange))

\* The severity bucket with strict comparisons.
filter_bubble_severity_strict(echo_chamber_score) ==
    IF RGt(echo_chamber_score, Rat(8, 10)) THEN "severe"
    ELSE IF RGt(echo_chamber_score, Rat(6, 10)) THEN "high"
    ELSE IF RGt(echo_chamber_score, Rat(4, 10)) THEN "medium"
    ELSE "low"

\* The severity bucket of lines 135-142.
filter_bubble_severity(echo_chamber_score) ==
    IF RGe(echo_chamber_score, Rat(8, 10)) THEN "severe"
    ELSE IF RGe(echo_chamber_score, Rat(6, 10)) THEN "high"
    ELSE IF RGe(echo_chamber_score, Rat(4, 10)) THEN "medium"
    ELSE "low"

HasText(item) == item.text # NoText

HasTimestamp(item) == item.timestamp # 0

\* [item.get("source", "unknown") for item in content_items]
ItemSources(content_items) ==
    [i \in DOMAIN content_items |-> content_items[i].source]

\* [item.get("text", "") for item in content_items if item.get("text")]
ItemTexts(content_items) ==
    LET kept == SelectSeq(content_items, HasText)
    IN  [i \in DOMAIN kept |-> kept[i].text]

\* [item.get("timestamp") for item in content_items if item.get("timestamp")]
ItemTimestamps(content_items) ==
    LET kept == SelectSeq(content_items, HasTimestamp)
    IN  [i \in DOMAIN kept |-> kept[i].timestamp]

\* The result of lines 99-110.
EmptyMetrics ==
    [topic_diversity |-> Zero, stance_diversity |-> Zero,
     source_diversity |-> Zero, semantic_diversity |-> Zero,
     temporal_diversity |-> Zero, echo_chamber_score |-> One,
     filter_bubble_severity |-> "severe",
     unique_topics |-> 0, unique_sources |-> 0, total_items |-> 0]

\* The mean of the five axes, temporal_div included.
average_diversity_with_temporal(topic_div, stance_div, source_div, semantic_div, temporal_div) ==
    RDiv(RAdd(RAdd(RAdd(RAdd(topic_div, stance_div), source_div), semantic_div),
              temporal_div),
         Rat(5, 1))

\* avg_diversity of line 131: temporal_div is computed before it and left out.
average_diversity(topic_div, stance_div, source_div, semantic_div, temporal_div) ==
    RDiv(RAdd(RAdd(RAdd(topic_div, stance_div), source_div), semantic_div),
         Rat(4, 1))

\* Lines 112-155 of calculate_metrics.
batch_metrics(content_items, topic_labels, stance_labels) ==
        LET topic_div == IF topic_labels # <<>>
                         THEN calculate_topic_diversity(topic_labels) ELSE Half
            stance_div == IF stance_labels # <<>>
                          THEN calculate_stance_diversity(stance_labels) ELSE Half
            sources == ItemSources(content_items)
            source_div == calculate_source_diversity(sources)
            texts == ItemTexts(content_items)
            semantic_div == IF texts # <<>>
                            THEN calculate_semantic_diversity(texts) ELSE Half
            timestamps == ItemTimestamps(content_items)
            temporal_div == IF timestamps # <<>>
                            THEN calculate_temporal_diversity(timestamps) ELSE Half
            avg_diversity == average_diversity(topic_div, stance_div, source_div,
                                               semantic_div, temporal_div)
            echo_chamber_score == RSub(One, avg_diversity)
        IN  [topic_diversity |-> topic_div, stance_diversity |-> stance_div,
             source_diversity |-> source_div, semantic_diversity |-> semantic_div,
             temporal_diversity |-> temporal_div,
             echo_chamber_score |-> echo_chamber_score,
             filter_bubble_severity |-> filter_bubble_severity(echo_chamber_score),
             unique_topics |-> IF topic_labels # <<>>
                               THEN Cardinality(Range(topic_labels)) ELSE 0,
             unique_sources |-> Cardinality(Range(sources)),
             total_items |-> Len(content_items)]

\* calculate_metrics without the guard of line 98.
calculate_metrics_unguarded(content_items, topic_labels, stance_labels) ==
    batch_metrics(content_items, topic_labels, stance_labels)

\* The value DiversityAnalyzer.calculate_metrics returns.
calculate_metrics(content_items, topic_labels, stance_labels) ==
    IF content_items = <<>> THEN EmptyMetrics
    ELSE batch_metrics(content_items, topic_labels, stance_labels)

\* Whether calculate_metrics reaches model.encode (line 249): some item has a
\* text and at least two have.
MetricsNeedsEmbedding(content_items) ==
    Len(ItemTexts(content_items)) >= 2

-----------------------------------------------------------------------------
(* EchoChamberDetector (backend/ml/echo_chamber.py). *)

\* The default of max_clusters.
MaxClusters == 5

\* The least number of content_texts detect analyses.
MinTexts == 5

\* n_clusters = min(max_clusters, max(2, n_samples // 10))
NClusters(n_samples) == Min(MaxClusters, Max(2, n_samples \div 10))

\* The k-means objective of a labelling: the sum over the clusters of the
\* squared distances to the cluster's mean, which is the sum over the pairs of
\* a cluster of their squared distance, divided by the cluster's size.
Inertia(embeddings, labels) ==
    LET n == Len(embeddings)
        size(c) == Cardinality({i \in 1..n : labels[i] = c})
        pairs == {p \in UpperPairs(n) : labels[p[1]] = labels[p[2]]}
        cost == [p \in pairs |->
                    Rat((embeddings[p[1]] - embeddings[p[2]])
                          * (embeddings[p[1]] - embeddings[p[2]]),
                        size(labels[p[1]]))]
    IN  RSumSet(pairs, cost)

\* The labels of an assignment of the points to clusters, read in the order of
\* the points, as a number in base m.
AssignmentKey(a, points, m) ==
    LET digit == [x \in points |-> a[x] * m ^ Cardinality({y \in points : y < x})]
    IN  IntSum(points, digit)

\* KMeans(n_clusters, random_state, n_init=10).fit_predict(embeddings): a
\* labelling of least inertia; equal vectors share a label, and the labels are
\* 0..m-1, where m is n_clusters or, when there are fewer, the number of
\* distinct vectors.  Which of the labellings of least inertia comes out (they
\* differ at least in the numbering of the clusters) is decided by the
\* generator, which random_state seeds.
KMeans(embeddings, n_clusters, random_state) ==
    LET points == Range(embeddings)
        m == Min(n_clusters, Cardinality(points))
        assignments == {a \in [points -> 0..(m - 1)] :
                            \A c \in 0..(m - 1) : \E x \in points : a[x] = c}
        labelling(a) == [i \in DOMAIN embeddings |-> a[embeddings[i]]]
        fits == {[assignment |-> a,
                  inertia |-> Inertia(embeddings, labelling(a)),
                  key |-> AssignmentKey(a, points, m)] : a \in assignments}
        optimal == {f \in fits : \A g \in fits : RLe(f.inertia, g.inertia)}
        drawn == random_state % Cardinality(optimal)
        best == CHOOSE f \in optimal :
                    Cardinality({g \in optimal : g.key < f.key}) = drawn
    IN  labelling(best.assignment)

\* The generator left unseeded (random_state=None): it moves on with every fit.
GlobalRandomState == kmeans_fits

\* random_state=42 of line 215.
RandomState == 42

\* The labels _cluster_content returns.
cluster_content(embeddings) ==
    KMeans(embeddings, NClusters(Len(embeddings)), RandomState)

calculate_content_similarity(embeddings) ==
    MeanSimilarity(embeddings, UpperPairs(Len(embeddings)), Zero)

\* max(stance_counts.values()) of the stances at the positions `members`.
DominantCount(stances, members) ==
    LET count(v) == Cardinality({i \in members : stances[i] = v})
        top == CHOOSE v \in {stances[i] : i \in members} :
                   \A w \in {stances[i] : i \in members} : count(v) >= count(w)
    IN  count(top)

calculate_ideological_clustering(cluster_labels, stances) ==
    IF stances = <<>> \/ Len(stances) # Len(cluster_labels) THEN Half
    ELSE LET unique_clusters == Range(cluster_labels)
             members(c) == {i \in DOMAIN cluster_labels : cluster_labels[i] = c}
             homogeneity ==
                 [c \in unique_clusters |->
                     Rat(DominantCount(stances, members(c)), Cardinality(members(c)))]
         IN  IF Cardinality(unique_clusters) > 0
             THEN RDiv(RSumSet(unique_clusters, homogeneity),
                       Rat(Cardinality(unique_clusters), 1))
             ELSE Zero

estimate_ideological_clustering(embeddings, cluster_labels) ==
    LET n == Len(embeddings)
        within == {p \in UpperPairs(n) : cluster_labels[p[1]] = cluster_labels[p[2]]}
        between == UpperPairs(n) \ within
        avg_within == MeanSimilarity(embeddings, within, Zero)
        avg_between == MeanSimilarity(embeddings, between, Zero)
    IN  IF RGt(avg_between, Zero)
        THEN RMin(One, RDiv(RSub(RDiv(avg_within, avg_between), One), Rat(2, 1)))
        ELSE Half

\* expected_stance_distribution = None
NoDistribution == [is_none |-> TRUE, dist |-> <<>>]

\* The default expected distribution of lines 323-327.
DefaultDistribution ==
    [favor |-> Rat(33, 100), against |-> Rat(33, 100), neutral |-> Rat(34, 100)]

calculate_viewpoint_suppression(stances, expected_distribution) ==
    IF stances = <<>> THEN Half
    ELSE LET expected == IF expected_distribution.is_none
                         THEN DefaultDistribution ELSE expected_distribution.dist
             total == Len(stances)
             actual(k) == Rat(Count(stances, k), total)
             deviation == [k \in DOMAIN expected |-> RAbs(RSub(actual(k), expected[k]))]
             total_deviation == RSumSet(DOMAIN expected, deviation)
         IN  RMin(One, RDiv(total_deviation, Rat(2, 1)))

\* max(np.bincount(cluster_labels)) / len(cluster_labels)
DominantClusterSize(cluster_labels) ==
    LET size(c) == Cardinality({i \in DOMAIN cluster_labels : cluster_labels[i] = c})
        top == CHOOSE c \in Range(cluster_labels) :
                   \A d \in Range(cluster_labels) : size(c) >= size(d)
    IN  Rat(size(top), Len(cluster_labels))

\* len(np.bincount(cluster_labels)): the largest label plus one.
BincountLen(cluster_labels) ==
    1 + CHOOSE c \in Range(cluster_labels) : \A d \in Range(cluster_labels) : c >= d

\* The four component scores weighted equally.
composite_score_unweighted(content_similarity, ideological_clustering, viewpoint_suppression, dominant_cluster_size) ==
    RAdd(RAdd(RAdd(RMul(content_similarity, Rat(25, 100)),
                   RMul(ideological_clustering, Rat(25, 100))),
              RMul(viewpoint_suppression, Rat(25, 100))),
         RMul(dominant_cluster_size, Rat(25, 100)))

\* echo_chamber_score of lines 145-151.
composite_score(content_similarity, ideological_clustering, viewpoint_suppression, dominant_cluster_size) ==
    RAdd(RAdd(RAdd(RMul(content_similarity, Rat(3, 10)),
                   RMul(ideological_clustering, Rat(3, 10))),
              RMul(viewpoint_suppression, Rat(2, 10))),
         RMul(dominant_cluster_size, Rat(2, 10)))

\* The verdict that also flags a medium score.
IsEchoChamberFromMedium(echo_chamber_score) == RGe(echo_chamber_score, Rat(4, 10))

\* is_echo_chamber of line 154.
IsEchoChamber(echo_chamber_score) == RGe(echo_chamber_score, Rat(6, 10))

\* The confidence without the 0.2 added for an echo chamber.
ConfidenceOfScore(is_echo_chamber, echo_chamber_score) ==
    IF is_echo_chamber THEN RMin(One, echo_chamber_score)
    ELSE RSub(One, echo_chamber_score)

\* confidence of line 155.
Confidence(is_echo_chamber, echo_chamber_score) ==
    IF is_echo_chamber THEN RMin(One, RAdd(echo_chamber_score, Rat(2, 10)))
    ELSE RSub(One, echo_chamber_score)

\* Lines 145-182 of detect: the score, the verdict and the result, from the
\* four component scores and the number of clusters.
echo_chamber_result(content_similarity, ideological_clustering, viewpoint_suppression, dominant_cluster_size, num_clusters) ==
    LET echo_chamber_score ==
            composite_score(content_similarity, ideological_clustering,
                            viewpoint_suppression, dominant_cluster_size)
        is_echo_chamber == IsEchoChamber(echo_chamber_score)
        confidence == Confidence(is_echo_chamber, echo_chamber_score)
        severity == IF RGe(echo_chamber_score, Rat(8, 10)) THEN "severe"
                    ELSE IF RGe(echo_chamber_score, Rat(6, 10)) THEN "high"
                    ELSE IF RGe(echo_chamber_score, Rat(4, 10)) THEN "medium"
                    ELSE "low"
        description ==
            CASE severity = "severe" ->
                   "Strong echo chamber detected. Content is highly homogeneous with minimal alternative viewpoints."
              [] severity = "high" ->
                   "Significant echo chamber effects. Most content reinforces similar perspectives."
              [] severity = "medium" ->
                   "Moderate echo chamber tendencies. Some diversity exists but dominant viewpoints prevail."
              [] severity = "low" ->
                   "Low echo chamber effects. Content shows reasonable diversity."
    IN  [content_similarity |-> content_similarity,
         ideological_clustering |-> ideological_clustering,
         viewpoint_suppression |-> viewpoint_suppression,
         num_clusters |-> num_clusters,
         dominant_cluster_size |-> dominant_cluster_size,
         echo_chamber_score |-> echo_chamber_score,
         is_echo_chamber |-> is_echo_chamber, confidence |-> confidence,
         severity |-> severity, description |-> description]

\* The result of lines 103-114.
InsufficientContent ==
    [is_echo_chamber |-> FALSE, confidence |-> Zero, echo_chamber_score |-> Zero,
     content_similarity |-> Zero, ideological_clustering |-> Zero,
     viewpoint_suppression |-> Zero, num_clusters |-> 0,
     dominant_cluster_size |-> Zero, severity |-> "low",
     description |-> "Insufficient content for analysis"]

\* Lines 116-182 of detect.
analyse_content(content_texts, content_stances, expected_stance_distribution) ==
         LET embeddings == Encode(content_texts)
             content_similarity == calculate_content_similarity(embeddings)
             cluster_labels == cluster_content(embeddings)
             ideological_clustering ==
                 IF content_stances # <<>>
                 THEN calculate_ideological_clustering(cluster_labels, content_stances)
                 ELSE estimate_ideological_clustering(embeddings, cluster_labels)
             viewpoint_suppression ==
                 calculate_viewpoint_suppression(content_stances,
                                                 expected_stance_distribution)
         IN  echo_chamber_result(content_similarity, ideological_clustering,
                                 viewpoint_suppression,
                                 DominantClusterSize(cluster_labels),
                                 BincountLen(cluster_labels))

\* detect with the guard of line 102 one text too low.
detect_guard_low(content_texts, content_stances, expected_stance_distribution) ==
    IF Len(content_texts) < MinTexts - 1 THEN InsufficientContent
    ELSE analyse_content(content_texts, content_stances, expected_stance_distribution)

\* The value EchoChamberDetector.detect returns.
detect(content_texts, content_stances, expected_stance_distribution) ==
    IF Len(content_texts) < MinTexts THEN InsufficientContent
    ELSE analyse_content(content_texts, content_stances, expected_stance_distribution)

\* Whether detect reaches the embedding model and the clustering (lines 116-124).
DetectNeedsEmbedding(content_texts) == Len(content_texts) >= MinTexts

-----------------------------------------------------------------------------
(* DiversityAnalyzer.compare_personas.  persona_metrics, a dict, is the     *)
(* sequence of its (persona_id, metrics) entries in insertion order.        *)

\* The index of entry i when the entries are sorted by descending score.
SortedIndexDescending(persona_metrics, i) ==
    Cardinality({j \in DOMAIN persona_metrics :
        \/ RGt(persona_metrics[j].metrics.echo_chamber_score,
               persona_metrics[i].metrics.echo_chamber_score)
        \/ /\ persona_metrics[j].metrics.echo_chamber_score
                = persona_metrics[i].metrics.echo_chamber_score
           /\ j < i})

\* The index (from 0) of entry i in sorted(persona_metrics.items(),
\* key=echo_chamber_score): sorted is stable.
SortedIndex(persona_metrics, i) ==
    Cardinality({j \in DOMAIN persona_metrics :
        \/ RLt(persona_metrics[j].metrics.echo_chamber_score,
               persona_metrics[i].metrics.echo_chamber_score)
        \/ /\ persona_metrics[j].metrics.echo_chamber_score
                = persona_metrics[i].metrics.echo_chamber_score
           /\ j < i})

\* The baseline taken from the first persona, not the mean.
BaselineOfFirst(persona_metrics, axis) == persona_metrics[1].metrics[axis]

\* sum(m.<axis> for m in all_metrics) / len(all_metrics)
Baseline(persona_metrics, axis) ==
    RDiv(RSumSet(DOMAIN persona_metrics,
                 [i \in DOMAIN persona_metrics |-> persona_metrics[i].metrics[axis]]),
         Rat(Len(persona_metrics), 1))

ComparedAxes ==
    {"topic_diversity", "stance_diversity", "source_diversity",
     "semantic_diversity", "echo_chamber_score"}

\* The dict DiversityAnalyzer.compare_personas returns, as a function of the
\* persona ids.
compare_personas(persona_metrics) ==
    IF persona_metrics = <<>> THEN <<>>
    ELSE LET ids == {persona_metrics[i].persona_id : i \in DOMAIN persona_metrics}
             entry(id) == CHOOSE i \in DOMAIN persona_metrics :
                              persona_metrics[i].persona_id = id
         IN  [id \in ids |->
                 LET metrics == persona_metrics[entry(id)].metrics
                 IN  [persona_id |-> id,
                      metrics |-> metrics,
                      comparison_to_baseline |->
                          [axis \in ComparedAxes |->
                              RSub(metrics[axis], Baseline(persona_metrics, axis))],
                      percentile_rank |->
                          [echo_chamber |->
                              RMul(Rat(SortedIndex(persona_metrics, entry(id)),
                                       Len(persona_metrics)),
                                   Rat(100, 1))]]]

-----------------------------------------------------------------------------
(* EchoChamberDetector.compare_personas.  persona_results, a dict, is the   *)
(* sequence of its (persona_id, result) entries in insertion order.         *)

\* The rank of entry i when the scores are sorted in ascending order.
RankAscending(persona_results, i) ==
    1 + Cardinality({j \in DOMAIN persona_results :
            \/ RLt(persona_results[j].result.echo_chamber_score,
                   persona_results[i].result.echo_chamber_score)
            \/ /\ persona_results[j].result.echo_chamber_score
                    = persona_results[i].result.echo_chamber_score
               /\ j < i})

\* The rank (from 1) of entry i in sorted(persona_results.items(),
\* key=echo_chamber_score, reverse=True): sorted is stable, also reversed.
Rank(persona_results, i) ==
    1 + Cardinality({j \in DOMAIN persona_results :
            \/ RGt(persona_results[j].result.echo_chamber_score,
                   persona_results[i].result.echo_chamber_score)
            \/ /\ persona_results[j].result.echo_chamber_score
                    = persona_results[i].result.echo_chamber_score
               /\ j < i})

\* sum(all_scores) / len(all_scores)
AverageScore(persona_results) ==
    RDiv(RSumSet(DOMAIN persona_results,
                 [i \in DOMAIN persona_results |->
                     persona_results[i].result.echo_chamber_score]),
         Rat(Len(persona_results), 1))

\* The dict EchoChamberDetector.compare_personas returns, as a function of
\* the persona ids.
compare_persona_results(persona_results) ==
    IF persona_results = <<>> THEN <<>>
    ELSE LET ids == {persona_results[i].persona_id : i \in DOMAIN persona_results}
             entry(id) == CHOOSE i \in DOMAIN persona_results :
                              persona_results[i].persona_id = id
             avg_score == AverageScore(persona_results)
         IN  [id \in ids |->
                 LET r == persona_results[entry(id)].result
                 IN  [rank |-> Rank(persona_results, entry(id)),
                      echo_chamber_score |-> r.echo_chamber_score,
                      severity |-> r.severity,
                      delta_from_average |-> RSub(r.echo_chamber_score, avg_score),
                      is_echo_chamber |-> r.is_echo_chamber,
                      description |-> r.description]]

-----------------------------------------------------------------------------
(* The calls.  One content batch is analysed per behaviour: the caller's    *)
(* call with its arguments, then the analyzer's return.                     *)

Day == 86400

\* The content items of the batches.
ItemPool ==
    << [source |-> "s1", text |-> "a", timestamp |-> Day],
       [source |-> "s2", text |-> "n", timestamp |-> 4 * Day],
       [source |-> "s1", text |-> NoText, timestamp |-> 0],
       [source |-> "s1", text |-> "a", timestamp |-> 12 * Day] >>

Topics == {"t1", "t2", "t3"}
Stances == {"favor", "against", "neutral"}

TopicRank == [t \in Topics |-> CASE t = "t1" -> 1 [] t = "t2" -> 2 [] t = "t3" -> 3]
StanceRank ==
    [t \in Stances |-> CASE t = "favor" -> 1 [] t = "against" -> 2 [] t = "neutral" -> 3]
TextRank == [t \in Texts |-> CASE t = "a" -> 1 [] t = "c" -> 2 [] t = "n" -> 3]
PoolRank == [i \in DOMAIN ItemPool |-> i]

ItemLists(n) ==
    {[i \in DOMAIN s |-> ItemPool[s[i]]] : s \in SortedSeqs(DOMAIN ItemPool, PoolRank, n)}

ExpectedDistributions ==
    { NoDistribution,
      [is_none |-> FALSE,
       dist |-> [favor |-> Rat(1, 3), against |-> Rat(1, 3), neutral |-> Rat(1, 3)]],
      [is_none |-> FALSE,
       dist |-> [favor |-> Rat(4, 10), against |-> Rat(1, 10), neutral |-> Rat(5, 10)]] }

MetricsCalls ==
    UNION {[op : {"calculate_metrics"},
            content_items : {items},
            topic_labels : {topics},
            stance_labels : SortedSeqs(Stances, StanceRank,
                                       MaxBatch - Len(items) - Len(topics))]
           : <<items, topics>> \in
                 UNION {{items} \X SortedSeqs(Topics, TopicRank, MaxBatch - Len(items))
                        : items \in ItemLists(MaxBatch)}}

\* A batch of texts with their stance labels: the (text, stance) pairs, sorted
\* (detect only counts the pairs of each kind).
LabelledTexts == Texts \X Stances
LabelledRank == [p \in LabelledTexts |-> 3 * TextRank[p[1]] + StanceRank[p[2]]]
LabelledLists == SortedSeqs(LabelledTexts, LabelledRank, MaxTexts)

DetectCalls ==
    UNION {[op : {"detect"},
            content_texts : {[i \in DOMAIN b |-> b[i][1]]},
            content_stances : {<<>>, [i \in DOMAIN b |-> b[i][2]]},
            expected_stance_distribution : ExpectedDistributions]
           : b \in LabelledLists}

\* Results of earlier calculate_metrics calls, as compare_personas receives them.
MetricsPool ==
    { calculate_metrics(<<>>, <<>>, <<>>),
      calculate_metrics(<<ItemPool[1], ItemPool[2]>>, <<"t1", "t2">>,
                        <<"favor", "against", "neutral">>),
      calculate_metrics(<<ItemPool[1], ItemPool[4]>>, <<"t1", "t1", "t2">>, <<"favor">>),
      calculate_metrics(<<ItemPool[3]>>, <<>>, <<>>) }

PersonaIds == <<"p1", "p2", "p3", "p4", "p5">>

CompareCalls ==
    [op : {"compare_personas"},
     persona_metrics :
         UNION {{[i \in 1..k |-> [persona_id |-> PersonaIds[i], metrics |-> m[i]]]
                 : m \in [1..k -> MetricsPool]} : k \in 0..MaxPersonas}]

\* Results of earlier detect calls, as EchoChamberDetector.compare_personas
\* receives them.
ResultPool ==
    { detect(<<>>, <<>>, NoDistribution),
      detect(<<"a", "a", "a", "a", "a">>, <<"favor", "favor", "favor", "favor", "favor">>,
             NoDistribution),
      detect(<<"a", "a", "a", "a", "n">>, <<>>, NoDistribution),
      detect(<<"a", "a", "c", "n", "n">>,
             <<"favor", "against", "neutral", "favor", "against">>, NoDistribution) }

CompareResultsCalls ==
    [op : {"compare_persona_results"},
     persona_results :
         UNION {{[i \in 1..k |-> [persona_id |-> PersonaIds[i], result |-> r[i]]]
                 : r \in [1..k -> ResultPool]} : k \in 0..MaxPersonas}]

\* Calls whose stance labels do not match the texts or items in number, or
\* hold a value that is no stance.
InvalidLabelCalls ==
    { [op |-> "detect", content_texts |-> <<"a", "a", "c", "n", "n">>,
       content_stances |-> <<"favor", "against", "neutral">>,
       expected_stance_distribution |-> NoDistribution],
      [op |-> "detect", content_texts |-> <<"a", "a", "c", "n", "n">>,
       content_stances |-> <<"favor", "other", "other", "against", "favor">>,
       expected_stance_distribution |-> NoDistribution],
      [op |-> "detect", content_texts |-> <<"a", "n">>,
       content_stances |-> <<"favor">>,
       expected_stance_distribution |-> NoDistribution],
      [op |-> "calculate_metrics", content_items |-> <<ItemPool[1], ItemPool[2]>>,
       topic_labels |-> <<"t1", "t2">>, stance_labels |-> <<"favor", "other">>],
      [op |-> "calculate_metrics", content_items |-> <<ItemPool[1], ItemPool[2]>>,
       topic_labels |-> <<"t1", "t2">>, stance_labels |-> <<"other", "other">>] }

Calls ==
    MetricsCalls \cup DetectCalls \cup CompareCalls \cup InvalidLabelCalls
        \cup CompareResultsCalls

NoResult == [status |-> "pending"]

Returned(value) == [status |-> "returned", value |-> value]

\* The call ended with an exception.
Raised(error) == [status |-> "raised", error |-> error]

-----------------------------------------------------------------------------
(* BiasDetector (backend/nlp/bias_detection.py).  A text is the record of   *)
(* what the detectors measure on it; None stands for a list entry that is   *)
(* no string.  A classified text is a text with the answers of the two      *)
(* classification pipelines for it.                                         *)

NoneText == [kind |-> "None"]

\* The str with these measures: len(text), upper-case characters, '!'
\* characters, len(text.split()), words holding a sensational word,
\* '.'-separated parts longer than 10 characters, opinion indicators found
\* and clickbait patterns found.
Str(length, uppercase, exclamations, words, sensational, sentences, opinions, clickbait) ==
    [kind |-> "str", length |-> length, uppercase |-> uppercase,
     exclamations |-> exclamations, words |-> words, sensational |-> sensational,
     sentences |-> sentences, opinions |-> opinions, clickbait |-> clickbait]

EmptyText == Str(0, 0, 0, 0, 0, 0, 0, 0)

PoliticalBias == {"left", "center_left", "center", "center_right", "right"}

\* for emotion in ["fear", "anger", "hope", "sadness", "joy", "neutral"]
EmotionalTone == <<"fear", "anger", "hope", "sadness", "joy", "neutral">>

candidate_labels ==
    <<"liberal progressive left-wing", "moderate centrist", "conservative right-wing">>

\* word in label, for the words _detect_political_bias looks for.
In(word, label) ==
    CASE label = "liberal progressive left-wing" -> word \in {"liberal", "left"}
      [] label = "conservative right-wing" -> word \in {"conservative", "right"}
      [] OTHER -> FALSE

\* The variant that also maps a confidence of exactly 0.7 to the extreme.
detect_political_bias_inclusive(answer) ==
    LET label == answer.labels[1]
        confidence == answer.scores[1]
    IN  IF In("liberal", label) \/ In("left", label)
        THEN IF RGe(confidence, Rat(7, 10)) THEN <<"left", confidence>>
             ELSE <<"center_left", confidence>>
        ELSE IF In("conservative", label) \/ In("right", label)
        THEN IF RGe(confidence, Rat(7, 10)) THEN <<"right", confidence>>
             ELSE <<"center_right", confidence>>
        ELSE <<"center", confidence>>

\* _detect_political_bias, given the zero-shot classifier's answer (result).
detect_political_bias(answer) ==
    LET label == answer.labels[1]
        confidence == answer.scores[1]
    IN  IF In("liberal", label) \/ In("left", label)
        THEN IF RGt(confidence, Rat(7, 10)) THEN <<"left", confidence>>
             ELSE <<"center_left", confidence>>
        ELSE IF In("conservative", label) \/ In("right", label)
        THEN IF RGt(confidence, Rat(7, 10)) THEN <<"right", confidence>>
             ELSE <<"center_right", confidence>>
        ELSE <<"center", confidence>>

\* The bucket the loop of _analyze_emotional_tone puts a label in.
Bucket(label) ==
    CASE label = "fear" -> "fear"
      [] label = "anger" -> "anger"
      [] label \in {"joy", "love"} -> "hope"
      [] label = "sadness" -> "sadness"
      [] label = "surprise" -> "pass"
      [] OTHER -> "neutral"

RECURSIVE RSumSeq(_, _)
\* sum(s[i] for i in I)
RSumSeq(s, I) ==
    IF I = {} THEN Zero
    ELSE LET i == CHOOSE j \in I : TRUE
         IN  RAdd(s[i], RSumSeq(s, I \ {i}))

\* The emotions dict after the loop over result[0]: its keys in insertion
\* order, and its values (hope and neutral add up, the others keep the last
\* score).
CollectedEmotions(items) ==
    LET at(k) == {i \in DOMAIN items : Bucket(items[i].label) = k}
        first == {i \in DOMAIN items : Bucket(items[i].label) # "pass"
                                        /\ \A j \in 1..(i - 1) : Bucket(items[j].label)
                                                                  # Bucket(items[i].label)}
        RECURSIVE keys(_)
        keys(I) == IF I = {} THEN <<>>
                   ELSE LET i == CHOOSE j \in I : \A h \in I : j <= h
                        IN  <<Bucket(items[i].label)>> \o keys(I \ {i})
        scores == [i \in DOMAIN items |-> items[i].score]
        last(k) == CHOOSE i \in at(k) : \A j \in at(k) : j <= i
    IN  [keys |-> keys(first),
         value |-> [k \in {Bucket(items[i].label) : i \in first} |->
                        IF k \in {"hope", "neutral"} THEN RSumSeq(scores, at(k))
                        ELSE items[last(k)].score]]

\* The keys of EmotionalTone that `keys` lacks, in the order of EmotionalTone.
MissingEmotions(keys) ==
    SelectSeq(EmotionalTone, LAMBDA e : e \notin Range(keys))

\* The variant that returns the collected scores without normalising them.
analyze_emotional_tone_raw(answer) ==
    LET emotions == CollectedEmotions(answer[1])
    IN  [keys |-> emotions.keys \o MissingEmotions(emotions.keys),
         value |-> [k \in Range(EmotionalTone) |->
                        IF k \in DOMAIN emotions.value THEN emotions.value[k] ELSE Zero]]

\* _analyze_emotional_tone, given the emotion classifier's answer (result): the dict
\* returned, as its keys in insertion order and its values.
analyze_emotional_tone(answer) ==
    LET emotions == CollectedEmotions(answer[1])
        total == RSumValues(DOMAIN emotions.value, emotions.value)
        normalized == IF RGt(total, Zero)
                      THEN [k \in DOMAIN emotions.value |-> RDiv(emotions.value[k], total)]
                      ELSE emotions.value
    IN  [keys |-> emotions.keys \o MissingEmotions(emotions.keys),
         value |-> [k \in Range(EmotionalTone) |->
                        IF k \in DOMAIN normalized THEN normalized[k] ELSE Zero]]

\* max(emotional_tones.items(), key=lambda x: x[1])[0]
primary_emotion(emotional_tones) ==
    LET keys == emotional_tones.keys
        i == CHOOSE j \in DOMAIN keys :
                 /\ \A h \in DOMAIN keys :
                        RLe(emotional_tones.value[keys[h]], emotional_tones.value[keys[j]])
                 /\ \A h \in 1..(j - 1) :
                        RLt(emotional_tones.value[keys[h]], emotional_tones.value[keys[j]])
    IN  keys[i]

\* _analyze_fact_opinion
analyze_fact_opinion(text) ==
    IF text.sentences = 0 THEN Half
    ELSE RSub(One, RMin(One, Rat(text.opinions, text.sentences)))

\* max(1, n)
AtLeastOne(n) == IF n < 1 THEN 1 ELSE n

\* _detect_sensationalism
detect_sensationalism(text) ==
    IF text.words = 0 THEN Zero
    ELSE LET caps_ratio == Rat(text.uppercase, AtLeastOne(text.length))
             word_score == RMin(One, Rat(text.sensational * 10, AtLeastOne(text.words)))
             punct_score == RMin(One, Rat(text.exclamations, 5))
             caps_score == RMin(One, RMul(caps_ratio, Rat(5, 1)))
         IN  RAdd(RMul(word_score, Half),
                  RAdd(RMul(punct_score, Rat(1, 4)), RMul(caps_score, Rat(1, 4))))

\* _detect_clickbait
detect_clickbait(text) == RMin(One, Rat(text.clickbait, 3))

\* The variant that counts the political confidence in full.
calculate_composite_score_unhalved(political_confidence, emotional_intensity, opinion_ratio, sensationalism, clickbait) ==
    RMin(One, RAdd(RMul(political_confidence, Rat(1, 5)),
              RAdd(RMul(emotional_intensity, Rat(1, 4)),
              RAdd(RMul(opinion_ratio, Rat(1, 5)),
              RAdd(RMul(sensationalism, Rat(1, 5)),
                   RMul(clickbait, Rat(3, 20)))))))

\* _calculate_composite_score
calculate_composite_score(political_confidence, emotional_intensity, opinion_ratio, sensationalism, clickbait) ==
    LET adjusted_political == RMul(political_confidence, Half)
    IN  RMin(One, RAdd(RMul(adjusted_political, Rat(1, 5)),
                  RAdd(RMul(emotional_intensity, Rat(1, 4)),
                  RAdd(RMul(opinion_ratio, Rat(1, 5)),
                  RAdd(RMul(sensationalism, Rat(1, 5)),
                       RMul(clickbait, Rat(3, 20)))))))

\* text[:200] + "..." if len(text) > 200 else text, as its length.
Shown(text) == IF text.length > 200 THEN 203 ELSE text.length

\* analyze, for a str: the BiasAnalysisResult.
analyze(classified) ==
    LET text == classified.text
        political == detect_political_bias(classified.zero_shot)
        emotional_tones == analyze_emotional_tone(classified.emotion)
        fact_opinion_ratio == analyze_fact_opinion(text)
        sensationalism_score == detect_sensationalism(text)
        clickbait_score == detect_clickbait(text)
    IN  [text |-> Shown(text),
         political_bias |-> political[1],
         political_confidence |-> political[2],
         emotional_tones |-> emotional_tones,
         primary_emotion |-> primary_emotion(emotional_tones),
         fact_opinion_ratio |-> fact_opinion_ratio,
         sensationalism_score |-> sensationalism_score,
         clickbait_score |-> clickbait_score,
         composite_bias_score |->
             calculate_composite_score(political[2],
                                       RSub(One, emotional_tones.value["neutral"]),
                                       RSub(One, fact_opinion_ratio),
                                       sensationalism_score, clickbait_score)]

\* text[:512] of _detect_political_bias raises TypeError for a text that is
\* no str.
AnalyzeRaises(classified) == classified.text.kind # "str"

\* The texts before the first one analyze raises on.
RECURSIVE Analyzed(_)
Analyzed(texts) ==
    IF texts = <<>> \/ AnalyzeRaises(Head(texts)) THEN <<>>
    ELSE <<Head(texts)>> \o Analyzed(Tail(texts))

\* The variant that leaves out the texts analyze raises on.
analyze_batch_skipping(texts) ==
    LET kept == SelectSeq(texts, LAMBDA t : ~AnalyzeRaises(t))
    IN  Returned([i \in DOMAIN kept |-> analyze(kept[i])])

\* analyze_batch: [self.analyze(text) for text in texts]
analyze_batch(texts) ==
    IF \E i \in DOMAIN texts : AnalyzeRaises(texts[i])
    THEN Raised("TypeError")
    ELSE Returned([i \in DOMAIN texts |-> analyze(texts[i])])

-----------------------------------------------------------------------------
(* DiversityAnalyzer and EchoChamberDetector: one call per behaviour. *)

\* A new analyzer, about to serve a call of `calls`.
Fresh(calls) ==
    /\ call \in calls
    /\ result = NoResult
    /\ embedding_model = "None"
    /\ model_loads = 0
    /\ encode_calls = 0
    /\ kmeans_fits = 0
    /\ history = <<>>
    /\ environment = DefaultEnvironment
    /\ bias_detector = NotConstructed
    /\ threads = NoThreads
    /\ NoRateLimiter

Init == Fresh(Calls)

\* The call returns `value`, having assigned the cluster labels `labels`.
Return(value, labels) ==
    /\ result' = Returned(value)
    /\ history' = Append(history,
                         [call |-> call, value |-> value, cluster_labels |-> labels])

\* model = self._get_embedding_model(); model.encode(...)
UseEmbeddingModel ==
    /\ embedding_model' = "loaded"
    /\ model_loads' = IF embedding_model = "None" THEN model_loads + 1 ELSE model_loads
    /\ encode_calls' = encode_calls + 1

CalculateMetrics ==
    /\ call.op = "calculate_metrics"
    /\ result = NoResult
    /\ Return(calculate_metrics(call.content_items, call.topic_labels,
                                call.stance_labels), <<>>)
    /\ IF MetricsNeedsEmbedding(call.content_items)
       THEN UseEmbeddingModel
       ELSE UNCHANGED <<embedding_model, model_loads, encode_calls>>
    /\ UNCHANGED <<call, kmeans_fits, environment, bias_detector, threads>>
    /\ UNCHANGED limiterVars

Detect ==
    /\ call.op = "detect"
    /\ result = NoResult
    /\ Return(detect(call.content_texts, call.content_stances,
                     call.expected_stance_distribution),
              IF DetectNeedsEmbedding(call.content_texts)
              THEN cluster_content(Encode(call.content_texts)) ELSE <<>>)
    /\ IF DetectNeedsEmbedding(call.content_texts)
       THEN UseEmbeddingModel /\ kmeans_fits' = kmeans_fits + 1
       ELSE UNCHANGED <<embedding_model, model_loads, encode_calls, kmeans_fits>>
    /\ UNCHANGED <<call, environment, bias_detector, threads>>
    /\ UNCHANGED limiterVars

ComparePersonas ==
    /\ call.op = "compare_personas"
    /\ result = NoResult
    /\ Return(compare_personas(call.persona_metrics), <<>>)
    /\ UNCHANGED <<call, embedding_model, model_loads, encode_calls, kmeans_fits,
                   environment, bias_detector, threads>>
    /\ UNCHANGED limiterVars

\* EchoChamberDetector.compare_personas(persona_results)
CompareResults ==
    /\ call.op = "compare_persona_results"
    /\ result = NoResult
    /\ Return(compare_persona_results(call.persona_results), <<>>)
    /\ UNCHANGED <<call, embedding_model, model_loads, encode_calls, kmeans_fits,
                   environment, bias_detector, threads>>
    /\ UNCHANGED limiterVars

Next == CalculateMetrics \/ Detect \/ ComparePersonas \/ CompareResults

Spec == Init /\ [][Next]_vars

-----------------------------------------------------------------------------
(* One analyzer serving several calls, one after the other. *)

SessionCalls ==
    { [op |-> "detect", content_texts |-> <<"a", "a", "a", "n", "n">>,
       content_stances |-> <<>>, expected_stance_distribution |-> NoDistribution],
      [op |-> "detect", content_texts |-> <<"a", "c", "c", "n", "n">>,
       content_stances |-> <<"favor", "favor", "against", "neutral", "neutral">>,
       expected_stance_distribution |-> NoDistribution],
      [op |-> "detect", content_texts |-> <<"a", "n">>,
       content_stances |-> <<>>, expected_stance_distribution |-> NoDistribution],
      [op |-> "calculate_metrics", content_items |-> <<ItemPool[1], ItemPool[2]>>,
       topic_labels |-> <<"t1", "t2">>, stance_labels |-> <<"favor", "against">>],
      [op |-> "calculate_metrics", content_items |-> <<ItemPool[3]>>,
       topic_labels |-> <<>>, stance_labels |-> <<>>],
      [op |-> "compare_personas", persona_metrics |-> <<>>] }

SessionInit == Fresh(SessionCalls)

\* The analyzer, which keeps its embedding model, receives its next call.
StartCall ==
    /\ result # NoResult
    /\ Len(history) < MaxCalls
    /\ call' \in SessionCalls
    /\ result' = NoResult
    /\ UNCHANGED <<embedding_model, model_loads, encode_calls, kmeans_fits, history,
                   environment, bias_detector, threads>>
    /\ UNCHANGED limiterVars

SessionNext == CalculateMetrics \/ Detect \/ ComparePersonas \/ StartCall

SessionSpec == SessionInit /\ [][SessionNext]_vars

-----------------------------------------------------------------------------
(* BiasDetector: construction, analyze and analyze_batch.  One detector is  *)
(* constructed and serves one call per behaviour.                           *)

\* What the installation offers: whether torch and transformers import, and
\* whether pipeline(...) can load the two classification models.
Environments ==
    { [transformers |-> TRUE, models |-> TRUE],
      [transformers |-> TRUE, models |-> FALSE],
      [transformers |-> FALSE, models |-> FALSE] }

TRANSFORMERS_AVAILABLE == environment.transformers

\* The str texts analysed.
StrTexts ==
    { EmptyText,
      Str(3, 1, 1, 1, 0, 0, 0, 0),
      Str(40, 1, 0, 8, 0, 2, 0, 0),
      Str(40, 1, 0, 8, 0, 1, 3, 0),
      Str(100, 4, 1, 20, 1, 3, 1, 1),
      Str(20, 10, 6, 4, 2, 1, 1, 4),
      Str(300, 6, 0, 50, 0, 6, 2, 0) }

\* The top confidences the zero-shot classifier answers with.
TopScores == {Rat(1, 2), Rat(7, 10), Rat(4, 5), One}

\* classifier(text[:512], candidate_labels, multi_label=False): the labels
\* by decreasing score; only the first entry is read.
ZeroShotResults ==
    {[labels |-> <<candidate_labels[i]>>, scores |-> <<s>>]
     : <<i, s>> \in (DOMAIN candidate_labels) \X TopScores}

Item(label, n) == [label |-> label, score |-> Rat(n, 10)]

\* classifier(text[:512]) of the emotion pipeline with top_k=None: one list
\* of (label, score) items per text.
EmotionResults ==
    { << <<Item("neutral", 3), Item("fear", 2), Item("anger", 1), Item("disgust", 1),
           Item("joy", 1), Item("sadness", 1), Item("surprise", 1)>> >>,
      << <<Item("surprise", 10), Item("neutral", 0), Item("fear", 0), Item("anger", 0),
           Item("disgust", 0), Item("joy", 0), Item("sadness", 0)>> >>,
      << <<Item("joy", 5), Item("love", 4), Item("surprise", 1)>> >>,
      << <<Item("disgust", 5), Item("neutral", 2), Item("anger", 2),
           Item("surprise", 1)>> >>,
      << <<Item("sadness", 4), Item("fear", 4), Item("surprise", 2)>> >>,
      << <<Item("anger", 10)>> >> }

ClassifiedTexts == [text : StrTexts, zero_shot : ZeroShotResults, emotion : EmotionResults]

\* A list entry that is no str; the classifiers are never asked about it.
ClassifiedNone ==
    [text |-> NoneText,
     zero_shot |-> [labels |-> <<candidate_labels[2]>>, scores |-> <<Half>>],
     emotion |-> << <<Item("neutral", 10)>> >>]

AnalyzeCalls == [op : {"analyze"}, text : ClassifiedTexts \cup {ClassifiedNone}]

\* The entries of the lists analyze_batch receives.
BatchPool ==
    { ClassifiedNone,
      [text |-> EmptyText,
       zero_shot |-> [labels |-> <<candidate_labels[2]>>, scores |-> <<Half>>],
       emotion |-> << <<Item("neutral", 10)>> >>],
      [text |-> Str(20, 10, 6, 4, 2, 1, 1, 4),
       zero_shot |-> [labels |-> <<candidate_labels[1]>>, scores |-> <<Rat(4, 5)>>],
       emotion |-> << <<Item("anger", 10)>> >>],
      [text |-> Str(100, 4, 1, 20, 1, 3, 1, 1),
       zero_shot |-> [labels |-> <<candidate_labels[3]>>, scores |-> <<Rat(7, 10)>>],
       emotion |-> << <<Item("joy", 5), Item("love", 4), Item("surprise", 1)>> >>] }

BatchCalls ==
    [op : {"analyze_batch"}, texts : UNION {[1..k -> BatchPool] : k \in 0..MaxBatchTexts}]

BiasCalls == AnalyzeCalls \cup BatchCalls

BiasInit ==
    /\ call \in BiasCalls
    /\ result = NoResult
    /\ environment \in Environments
    /\ bias_detector = NotConstructed
    /\ threads = NoThreads
    /\ NoRateLimiter
    /\ embedding_model = "None"
    /\ model_loads = 0
    /\ encode_calls = 0
    /\ kmeans_fits = 0
    /\ history = <<>>

\* BiasDetector()
Construct ==
    /\ bias_detector.state = "absent"
    /\ result = NoResult
    /\ IF ~TRANSFORMERS_AVAILABLE
       THEN /\ bias_detector' = [bias_detector EXCEPT !.state = "failed"]
            /\ result' = Raised("ImportError")
       ELSE /\ bias_detector' = [state |-> "constructed",
                                 emotion_classifier |-> "None",
                                 zero_shot_classifier |-> "None"]
            /\ UNCHANGED result
    /\ UNCHANGED <<call, environment, threads, embedding_model, model_loads,
                   encode_calls, kmeans_fits, history>>
    /\ UNCHANGED limiterVars

\* The classifiers a call has loaded when it ends: the zero-shot classifier
\* is fetched first; the emotion classifier after the first political-bias
\* answer.
Loaded(zero_shot, emotion) ==
    [bias_detector EXCEPT
        !.zero_shot_classifier = IF zero_shot THEN "loaded" ELSE @,
        !.emotion_classifier = IF emotion THEN "loaded" ELSE @]

\* detector.analyze(text)
Analyze ==
    /\ call.op = "analyze"
    /\ bias_detector.state = "constructed"
    /\ result = NoResult
    /\ IF ~environment.models
       THEN result' = Raised("OSError") /\ UNCHANGED bias_detector
       ELSE IF AnalyzeRaises(call.text)
       THEN result' = Raised("TypeError") /\ bias_detector' = Loaded(TRUE, FALSE)
       ELSE result' = Returned(analyze(call.text)) /\ bias_detector' = Loaded(TRUE, TRUE)
    /\ UNCHANGED <<call, environment, threads, embedding_model, model_loads,
                   encode_calls, kmeans_fits, history>>
    /\ UNCHANGED limiterVars

\* detector.analyze_batch(texts)
AnalyzeBatch ==
    /\ call.op = "analyze_batch"
    /\ bias_detector.state = "constructed"
    /\ result = NoResult
    /\ IF call.texts = <<>>
       THEN result' = analyze_batch(call.texts) /\ UNCHANGED bias_detector
       ELSE IF ~environment.models
       THEN result' = Raised("OSError") /\ UNCHANGED bias_detector
       ELSE /\ result' = analyze_batch(call.texts)
            /\ bias_detector' = Loaded(TRUE, Analyzed(call.texts) # <<>>)
    /\ UNCHANGED <<call, environment, threads, embedding_model, model_loads,
                   encode_calls, kmeans_fits, history>>
    /\ UNCHANGED limiterVars

BiasNext == Construct \/ Analyze \/ AnalyzeBatch

BiasSpec == BiasInit /\ [][BiasNext]_vars

-----------------------------------------------------------------------------
(* Concurrent first use of a lazily initialised handle: the threads run the *)
(* same call on one analyzer, and each getter ("if self._x is None:         *)
(* self._x = load(); return self._x") is interleaved statement by statement.*)
(* A handle is named after the thread that constructed it.                  *)

ThreadNames == <<"thread-1", "thread-2", "thread-3", "thread-4", "thread-5">>

Threads == {ThreadNames[i] : i \in 1..NumThreads}

\* The handles a call fetches, in order.
HandlesOf(c) ==
    IF c.op = "analyze" THEN <<"zero_shot_classifier", "emotion_classifier">>
    ELSE <<"embedding_model">>

\* self._embedding_model, self._zero_shot_classifier or self._emotion_classifier
Handle(name) == IF name = "embedding_model" THEN embedding_model ELSE bias_detector[name]

ConcurrentCalls ==
    { [op |-> "calculate_metrics", content_items |-> <<ItemPool[1], ItemPool[2]>>,
       topic_labels |-> <<>>, stance_labels |-> <<>>],
      [op |-> "detect", content_texts |-> <<"a", "a", "c", "n", "n">>,
       content_stances |-> <<>>, expected_stance_distribution |-> NoDistribution],
      [op |-> "analyze",
       text |-> [text |-> EmptyText,
                 zero_shot |-> [labels |-> <<candidate_labels[2]>>, scores |-> <<Half>>],
                 emotion |-> << <<Item("neutral", 10)>> >>]] }

ConcurrentInit ==
    /\ call \in ConcurrentCalls
    /\ result = NoResult
    /\ environment = DefaultEnvironment
    /\ bias_detector = IF call.op = "analyze"
                       THEN [state |-> "constructed", emotion_classifier |-> "None",
                             zero_shot_classifier |-> "None"]
                       ELSE NotConstructed
    /\ threads = [t \in Threads |-> [pc |-> "get", at |-> 1, used |-> <<>>]]
    /\ NoRateLimiter
    /\ embedding_model = "None"
    /\ model_loads = 0
    /\ encode_calls = 0
    /\ kmeans_fits = 0
    /\ history = <<>>

\* The handle thread t is fetching.
Fetching(t) == HandlesOf(call)[threads[t].at]

\* if self._x is None:
Get(t) ==
    /\ threads[t].pc = "get"
    /\ threads' = [threads EXCEPT ![t].pc = IF Handle(Fetching(t)) = "None"
                                            THEN "load" ELSE "return"]
    /\ UNCHANGED <<call, result, environment, bias_detector, embedding_model,
                   model_loads, encode_calls, kmeans_fits, history>>
    /\ UNCHANGED limiterVars

\* SentenceTransformer(...) or pipeline(...): a model is constructed.
Load(t) ==
    /\ threads[t].pc = "load"
    /\ model_loads' = model_loads + 1
    /\ threads' = [threads EXCEPT ![t].pc = "assign"]
    /\ UNCHANGED <<call, result, environment, bias_detector, embedding_model,
                   encode_calls, kmeans_fits, history>>
    /\ UNCHANGED limiterVars

\* self._x = <the model constructed>
Assign(t) ==
    /\ threads[t].pc = "assign"
    /\ IF Fetching(t) = "embedding_model"
       THEN embedding_model' = t /\ UNCHANGED bias_detector
       ELSE bias_detector' = [bias_detector EXCEPT ![Fetching(t)] = t]
            /\ UNCHANGED embedding_model
    /\ threads' = [threads EXCEPT ![t].pc = "return"]
    /\ UNCHANGED <<call, result, environment, model_loads, encode_calls,
                   kmeans_fits, history>>
    /\ UNCHANGED limiterVars

\* return self._x, and the caller's use of the handle returned.
UseHandle(t) ==
    /\ threads[t].pc = "return"
    /\ threads' = [threads EXCEPT
                      ![t].used = Append(@, Handle(Fetching(t))),
                      ![t].at = IF @ < Len(HandlesOf(call)) THEN @ + 1 ELSE @,
                      ![t].pc = IF threads[t].at < Len(HandlesOf(call))
                                THEN "get" ELSE "done"]
    /\ encode_calls' = IF Fetching(t) = "embedding_model"
                       THEN encode_calls + 1 ELSE encode_calls
    /\ UNCHANGED <<call, result, environment, bias_detector, embedding_model,
                   model_loads, kmeans_fits, history>>
    /\ UNCHANGED limiterVars

ConcurrentNext == \E t \in Threads : Get(t) \/ Load(t) \/ Assign(t) \/ UseHandle(t)

ConcurrentSpec == ConcurrentInit /\ [][ConcurrentNext]_vars

-----------------------------------------------------------------------------
(* RateLimiter (backend/scrapers/rate_limiter.py).  The callers are asyncio *)
(* tasks: a task runs without interruption from one await that suspends it  *)
(* (the lock, asyncio.sleep) to the next.  time.time() is `now`, in seconds.*)

\* None, for daily_quota and burst_limit.
None == -1

\* bool(x) for an optional int: None and 0 are false.
Truthy(x) == x # None /\ x # 0

\* RateLimitConfig(requests_per_minute, daily_quota, burst_limit)
RateLimitConfig(requests_per_minute, daily_quota, burst_limit) ==
    [requests_per_minute |-> requests_per_minute, daily_quota |-> daily_quota,
     burst_limit |-> burst_limit]

Configs ==
    { RateLimitConfig(2, None, None),
      RateLimitConfig(2, 2, 1),
      RateLimitConfig(4, 1, None),
      RateLimitConfig(2, 3, 3),
      RateLimitConfig(2, 0, None) }

\* The seconds after which _check_daily_reset resets the quota.
DayLength == 86400

\* The step of the clock, in seconds.
ClockStep == 15

Callers == {ThreadNames[i] : i \in 1..NumCallers}

RateInit ==
    /\ rate_limiter = NoLimiter
    /\ now = 0
    /\ threads = [t \in Callers |-> [pc |-> "idle", wake_at |-> 0, calls |-> 0]]
    /\ call = [op |-> "acquire"]
    /\ result = NoResult
    /\ environment = DefaultEnvironment
    /\ bias_detector = NotConstructed
    /\ embedding_model = "None"
    /\ model_loads = 0
    /\ encode_calls = 0
    /\ kmeans_fits = 0
    /\ history = <<>>

\* What no step of a RateLimiter changes.
analyzerVars ==
    <<call, result, environment, bias_detector, embedding_model, model_loads,
      encode_calls, kmeans_fits, history>>

\* self.tokens = config.requests_per_minute: the bucket starts with a
\* minute's worth of tokens.
InitialTokensOfRate(config) == config.requests_per_minute

\* RateLimiter(config).  `granted` counts the calls granted since the last
\* daily reset (since construction, before the first one).
NewRateLimiter ==
    /\ ~rate_limiter.constructed
    /\ \E config \in Configs :
           rate_limiter' =
               [constructed |-> TRUE,
                config |-> config,
                tokens |-> Rat(InitialTokensOfRate(config), 1),
                max_tokens |-> IF Truthy(config.burst_limit)
                               THEN config.burst_limit
                               ELSE config.requests_per_minute,
                last_update |-> now,
                daily_used |-> 0,
                daily_reset_time |-> now,
                lock |-> "free",
                granted |-> 0]
    /\ UNCHANGED <<now, threads>>
    /\ UNCHANGED analyzerVars

\* time.time() advances: by one step of the clock (at most MaxTicks steps
\* in all), or by a day (once).
Tick ==
    /\ \E d \in {ClockStep, DayLength} :
           /\ d = ClockStep => (now % DayLength) + d <= MaxTicks * ClockStep
           /\ d = DayLength => now < DayLength
           /\ now' = now + d
    /\ UNCHANGED <<rate_limiter, threads>>
    /\ UNCHANGED analyzerVars

\* A task calls acquire() and reaches "async with self._lock".
CallAcquire(t) ==
    /\ rate_limiter.constructed
    /\ threads[t].pc \in {"idle", "granted", "raised"}
    /\ threads[t].calls < MaxAcquires
    /\ threads' = [threads EXCEPT ![t].pc = "waiting", ![t].calls = @ + 1]
    /\ UNCHANGED <<rate_limiter, now>>
    /\ UNCHANGED analyzerVars

\* _check_daily_reset
check_daily_reset(limiter) ==
    IF now - limiter.daily_reset_time >= DayLength
    THEN [limiter EXCEPT !.daily_used = 0, !.daily_reset_time = now, !.granted = 0]
    ELSE limiter

\* _refill_tokens
refill_tokens(limiter) ==
    LET elapsed == now - limiter.last_update
        tokens_to_add == Rat(elapsed * limiter.config.requests_per_minute, 60)
    IN  [limiter EXCEPT
            !.tokens = RMin(Rat(limiter.max_tokens, 1), RAdd(limiter.tokens, tokens_to_add)),
            !.last_update = now]

\* wait_time = 60.0 / self.config.requests_per_minute
WaitTime(limiter) == 60 \div limiter.config.requests_per_minute

\* Lines 72-76: the token is consumed, the call is granted and the lock is
\* released.
Consume(limiter) ==
    [limiter EXCEPT
        !.tokens = RSub(@, One),
        !.daily_used = IF Truthy(limiter.config.daily_quota) THEN @ + 1 ELSE @,
        !.granted = @ + 1,
        !.lock = "free"]

\* From "await self._refill_tokens()" on, for the task t that holds the lock:
\* the task sleeps (keeping the lock) while fewer than 1 token is left, and is
\* granted the call otherwise.
RefillAndConsume(t, limiter) ==
    LET refilled == refill_tokens(limiter)
    IN  IF RLt(refilled.tokens, One)
        THEN /\ rate_limiter' = [refilled EXCEPT !.lock = t]
             /\ threads' = [threads EXCEPT ![t].pc = "sleeping",
                                           ![t].wake_at = now + WaitTime(limiter)]
        ELSE /\ rate_limiter' = Consume(refilled)
             /\ threads' = [threads EXCEPT ![t].pc = "granted"]

\* asyncio.Lock: not locked.
LockFree(limiter) == limiter.lock = "free"

\* The task takes the lock and runs lines 56-69 up to its first sleep, to the
\* quota exception or to the end of acquire.
EnterAcquire(t) ==
    /\ threads[t].pc = "waiting"
    /\ LockFree(rate_limiter)
    /\ LET checked == IF Truthy(rate_limiter.config.daily_quota)
                      THEN check_daily_reset(rate_limiter) ELSE rate_limiter
       IN  IF Truthy(rate_limiter.config.daily_quota)
              /\ checked.daily_used >= rate_limiter.config.daily_quota
           THEN /\ rate_limiter' = checked
                /\ threads' = [threads EXCEPT ![t].pc = "raised"]
           ELSE RefillAndConsume(t, checked)
    /\ UNCHANGED now
    /\ UNCHANGED analyzerVars

\* asyncio.sleep(wait_time) is over: lines 69-76.
WakeUp(t) ==
    /\ threads[t].pc = "sleeping"
    /\ now >= threads[t].wake_at
    /\ RefillAndConsume(t, rate_limiter)
    /\ UNCHANGED now
    /\ UNCHANGED analyzerVars

RateNext ==
    \/ NewRateLimiter
    \/ Tick
    \/ \E t \in Callers : CallAcquire(t) \/ EnterAcquire(t) \/ WakeUp(t)

RateSpec == RateInit /\ [][RateNext]_vars

-----------------------------------------------------------------------------
(* The properties. *)

MetricsReturned == call.op = "calculate_metrics" /\ result.status = "returned"

DetectReturned == call.op = "detect" /\ result.status = "returned"

CompareReturned == call.op = "compare_personas" /\ result.status = "returned"

\* C1: every diversity axis and the echo_chamber_score of the DiversityMetrics
\* that calculate_metrics returns lie in [0,1].
C1_MetricsInUnit ==
    MetricsReturned =>
        /\ InUnit(result.value.topic_diversity)
        /\ InUnit(result.value.stance_diversity)
        /\ InUnit(result.value.source_diversity)
        /\ InUnit(result.value.semantic_diversity)
        /\ InUnit(result.value.temporal_diversity)
        /\ InUnit(result.value.echo_chamber_score)

\* C2: confidence, echo_chamber_score and the four component scores of the
\* EchoChamberResult that detect returns lie in [0,1].
C2_EchoResultInUnit ==
    DetectReturned =>
        /\ InUnit(result.value.confidence)
        /\ InUnit(result.value.echo_chamber_score)
        /\ InUnit(result.value.content_similarity)
        /\ InUnit(result.value.ideological_clustering)
        /\ InUnit(result.value.viewpoint_suppression)
        /\ InUnit(result.value.dominant_cluster_size)

\* C3: calculate_metrics on an empty item list returns, whatever the labels,
\* the degenerate metrics: every axis 0, echo_chamber_score 1, severity
\* "severe", every counter 0.
C3_EmptyBatchIsSevere ==
    (MetricsReturned /\ call.content_items = <<>>) =>
        /\ result.value.topic_diversity = Zero
        /\ result.value.stance_diversity = Zero
        /\ result.value.source_diversity = Zero
        /\ result.value.semantic_diversity = Zero
        /\ result.value.temporal_diversity = Zero
        /\ result.value.echo_chamber_score = One
        /\ result.value.filter_bubble_severity = "severe"
        /\ result.value.unique_topics = 0
        /\ result.value.unique_sources = 0
        /\ result.value.total_items = 0

\* An empty batch analysed with topic and stance labels passed.
C3_Witness ==
    /\ MetricsReturned
    /\ call.content_items = <<>>
    /\ Len(call.topic_labels) >= 2
    /\ Len(call.stance_labels) >= 2

\* C4: detect on fewer than 5 texts returns the insufficient-content result,
\* whatever the stances and the expected distribution, and neither loads nor
\* calls the embedding model, nor clusters.
C4_FewTextsInsufficient ==
    (DetectReturned /\ Len(call.content_texts) < 5) =>
        /\ result.value.is_echo_chamber = FALSE
        /\ result.value.echo_chamber_score = Zero
        /\ result.value.confidence = Zero
        /\ result.value.num_clusters = 0
        /\ result.value.description = "Insufficient content for analysis"
        /\ embedding_model = "None"
        /\ model_loads = 0
        /\ encode_calls = 0
        /\ kmeans_fits = 0

\* Four texts analysed, with stances and an expected distribution passed.
C4_Witness ==
    /\ DetectReturned
    /\ Len(call.content_texts) = 4
    /\ call.content_stances # <<>>
    /\ ~call.expected_stance_distribution.is_none

\* The bucket `severity` is the one the thresholds give `score`.
SeverityMatches(score, severity) ==
    /\ severity \in {"low", "medium", "high", "severe"}
    /\ severity = "severe" <=> RGe(score, Rat(8, 10))
    /\ severity = "high" <=> (RGe(score, Rat(6, 10)) /\ RLt(score, Rat(8, 10)))
    /\ severity = "medium" <=> (RGe(score, Rat(4, 10)) /\ RLt(score, Rat(6, 10)))
    /\ severity = "low" <=> RLt(score, Rat(4, 10))

BoundaryScores == {Rat(4, 10), Rat(6, 10), Rat(8, 10)}

\* Both analyzers give each boundary score its bucket: calculate_metrics by
\* filter_bubble_severity, detect for four components equal to the score
\* (whose composite is the score).
BoundaryBuckets ==
    \A s \in BoundaryScores :
        /\ SeverityMatches(s, filter_bubble_severity(s))
        /\ echo_chamber_result(s, s, s, s, 2).echo_chamber_score = s
        /\ SeverityMatches(s, echo_chamber_result(s, s, s, s, 2).severity)

\* C5: the severity of every result of calculate_metrics and of detect is the
\* bucket of its echo_chamber_score (severe from 0.8, high from 0.6, medium
\* from 0.4, else low), and both analyzers give the boundary scores 0.4, 0.6
\* and 0.8 the same bucket.
C5_SeverityFromScore ==
    /\ MetricsReturned =>
           SeverityMatches(result.value.echo_chamber_score,
                           result.value.filter_bubble_severity)
    /\ DetectReturned =>
           SeverityMatches(result.value.echo_chamber_score, result.value.severity)
    /\ BoundaryBuckets

\* detect returns a score on the boundary 0.6.
C5_Witness ==
    /\ DetectReturned
    /\ result.value.echo_chamber_score = Rat(6, 10)
    /\ result.value.severity = "high"

\* The batch with every timestamp removed.
WithoutTimestamps(content_items) ==
    [i \in DOMAIN content_items |-> [content_items[i] EXCEPT !.timestamp = 0]]

\* C6: for a non-empty batch, echo_chamber_score is 1 minus the mean of the
\* topic, stance, source and semantic diversity of the same result, and the
\* score and the severity are those of the batch without its timestamps (so
\* two batches that differ only in timestamps get the same of both).
C6_EchoScoreExcludesTemporal ==
    (MetricsReturned /\ call.content_items # <<>>) =>
        /\ result.value.echo_chamber_score =
               RSub(One,
                    RDiv(RAdd(RAdd(result.value.topic_diversity,
                                   result.value.stance_diversity),
                              RAdd(result.value.source_diversity,
                                   result.value.semantic_diversity)),
                         Rat(4, 1)))
        /\ LET bare == calculate_metrics(WithoutTimestamps(call.content_items),
                                         call.topic_labels, call.stance_labels)
           IN  /\ result.value.echo_chamber_score = bare.echo_chamber_score
               /\ result.value.filter_bubble_severity = bare.filter_bubble_severity

\* A batch whose temporal_diversity differs from that of the batch without
\* its timestamps.
C6_Witness ==
    /\ MetricsReturned
    /\ call.content_items # <<>>
    /\ result.value.temporal_diversity = One
    /\ calculate_metrics(WithoutTimestamps(call.content_items), call.topic_labels,
                         call.stance_labels).temporal_diversity = Half

\* C7: for 5 texts or more, echo_chamber_score is 0.3 content_similarity +
\* 0.3 ideological_clustering + 0.2 viewpoint_suppression + 0.2
\* dominant_cluster_size, is_echo_chamber is score >= 0.6, confidence is
\* min(1, score + 0.2) for an echo chamber and 1 - score otherwise; the
\* components (0.9, 0.9, 0.5, 0.5) give 0.74, an echo chamber, "high".
C7_CompositeScore ==
    /\ (DetectReturned /\ Len(call.content_texts) >= 5) =>
           LET r == result.value
               score == RDiv(RAdd(RAdd(RMul(Rat(3, 1), r.content_similarity),
                                       RMul(Rat(3, 1), r.ideological_clustering)),
                                  RAdd(RMul(Rat(2, 1), r.viewpoint_suppression),
                                       RMul(Rat(2, 1), r.dominant_cluster_size))),
                             Rat(10, 1))
           IN  /\ r.echo_chamber_score = score
               /\ r.is_echo_chamber <=> ~RLt(score, Rat(6, 10))
               /\ r.is_echo_chamber =>
                      r.confidence = (IF RLt(RAdd(score, Rat(1, 5)), One)
                                      THEN RAdd(score, Rat(1, 5)) ELSE One)
               /\ ~r.is_echo_chamber => r.confidence = RSub(One, score)
    /\ LET e == echo_chamber_result(Rat(9, 10), Rat(9, 10), Rat(1, 2), Rat(1, 2), 2)
       IN  /\ e.echo_chamber_score = Rat(74, 100)
           /\ e.is_echo_chamber
           /\ e.severity = "high"

\* An echo chamber found in 5 texts, with a confidence below the cap.
C7_Witness ==
    /\ DetectReturned
    /\ Len(call.content_texts) >= 5
    /\ result.value.is_echo_chamber
    /\ RLt(result.value.confidence, One)

\* The number of entries of s equal to v, for each value v of s.
Counts(s) == {Count(s, v) : v \in Range(s)}

C9_StanceDiversity ==
    (MetricsReturned /\ call.content_items # <<>> /\ call.stance_labels # <<>>) =>
        LET d == result.value.stance_diversity
            favor == Count(call.stance_labels, "favor")
            against == Count(call.stance_labels, "against")
            neutral == Count(call.stance_labels, "neutral")
        IN  /\ (favor = against /\ against = neutral) => d = One
            /\ Cardinality(Range(call.stance_labels)) = 1 => d = Zero

\* C10: in the result of compare_personas, the deltas of each compared axis
\* sum to 0 over the personas, each delta being the persona's value minus the
\* mean of the axis over the personas; an empty map gives an empty result.
C10_DeltasSumToZero ==
    CompareReturned =>
        LET pm == call.persona_metrics
            ids == {pm[i].persona_id : i \in DOMAIN pm}
            value(id, axis) ==
                (CHOOSE e \in Range(pm) : e.persona_id = id).metrics[axis]
            delta(id, axis) == result.value[id].comparison_to_baseline[axis]
        IN  /\ pm = <<>> => result.value = <<>>
            /\ pm # <<>> =>
                   /\ DOMAIN result.value = ids
                   /\ \A axis \in ComparedAxes :
                          LET mean == RDiv(RSumSet(ids, [id \in ids |-> value(id, axis)]),
                                           Rat(Cardinality(ids), 1))
                          IN  /\ RSumSet(ids, [id \in ids |-> delta(id, axis)]) = Zero
                              /\ \A id \in ids :
                                     delta(id, axis) = RSub(value(id, axis), mean)

\* Three personas compared, one of them off the baseline.
C10_Witness ==
    /\ CompareReturned
    /\ Len(call.persona_metrics) = 3
    /\ \E id \in DOMAIN result.value :
           result.value[id].comparison_to_baseline["echo_chamber_score"] # Zero

C17_AtLeastOneCluster ==
    DetectReturned => result.value.num_clusters >= 1

\* The stance labels passed are not one valid stance per text (or item).
InvalidStances(stances, n) ==
    /\ stances # <<>>
    /\ \/ Len(stances) # n
       \/ \E i \in DOMAIN stances : stances[i] \notin Stances

\* C14: a call of detect or calculate_metrics with a stance-label list of the
\* wrong length, or with a value that is no stance, fails: it returns no result.
C14_InvalidLabelsRejected ==
    /\ (call.op = "detect" /\ InvalidStances(call.content_stances,
                                               Len(call.content_texts)))
           => result.status # "returned"
    /\ (call.op = "calculate_metrics" /\ InvalidStances(call.stance_labels,
                                                          Len(call.content_items)))
           => result.status # "returned"

AnalyzeReturned == call.op = "analyze" /\ result.status = "returned"

\* C12: analyze on the empty string, with the classifiers available, raises
\* nothing and returns a composite_bias_score in [0,1], fact_opinion_ratio 0.5
\* and 0 for the six emotion buckets, sensationalism and clickbait.
C12_EmptyTextDefaults ==
    (/\ call.op = "analyze"
     /\ call.text.text = EmptyText
     /\ environment = DefaultEnvironment
     /\ bias_detector.state = "constructed"
     /\ result # NoResult)
        => /\ result.status = "returned"
           /\ InUnit(result.value.composite_bias_score)
           /\ result.value.fact_opinion_ratio = Half
           /\ result.value.sensationalism_score = Zero
           /\ result.value.clickbait_score = Zero
           /\ \A k \in Range(EmotionalTone) : result.value.emotional_tones.value[k] = Zero

\* C13: where the classification capability is absent (the library does not
\* import, or the classifier models do not load) no BiasDetector is
\* constructed, and no call of a constructed detector ends by finding a
\* classifier missing.
C13_AbsentCapabilityFailsConstruction ==
    /\ (~environment.transformers \/ ~environment.models)
           => bias_detector.state # "constructed"
    /\ result.status = "raised" => result.error # "OSError"

\* C15: analyze_batch ends with the exception, and no list, as soon as
\* scoring one text fails; otherwise it returns exactly one result per text,
\* in the order of the texts.
C15_BatchAllOrNothing ==
    (/\ call.op = "analyze_batch"
     /\ bias_detector.state = "constructed"
     /\ result # NoResult)
        => IF \/ \E i \in DOMAIN call.texts : AnalyzeRaises(call.texts[i])
              \/ call.texts # <<>> /\ ~environment.models
           THEN result.status = "raised"
           ELSE /\ result.status = "returned"
                /\ Len(result.value) = Len(call.texts)
                /\ \A i \in DOMAIN call.texts : result.value[i] = analyze(call.texts[i])

C15_Witness ==
    /\ call.op = "analyze_batch"
    /\ environment = DefaultEnvironment
    /\ Len(call.texts) = 2
    /\ ~AnalyzeRaises(call.texts[1])
    /\ AnalyzeRaises(call.texts[2])
    /\ result.status = "raised"
    /\ bias_detector.emotion_classifier = "loaded"

\* C16: under every interleaving of the threads that first use an analyzer,
\* each handle is constructed once and all threads use the same handle.
C16_LoadedOnce ==
    /\ model_loads <= Len(HandlesOf(call))
    /\ \A t, u \in DOMAIN threads :
           \A i \in DOMAIN threads[t].used :
               i \in DOMAIN threads[u].used => threads[t].used[i] = threads[u].used[i]

\* C18: a left (right) top label gives LEFT (RIGHT) when the top confidence is
\* strictly above 0.7 and CENTER_LEFT (CENTER_RIGHT) otherwise, also at
\* exactly 0.7; the centrist label gives CENTER at every confidence; the
\* confidence returned is the top score.
C18_PoliticalMapping ==
    AnalyzeReturned =>
        LET label == call.text.zero_shot.labels[1]
            score == call.text.zero_shot.scores[1]
        IN  /\ result.value.political_confidence = score
            /\ label = "liberal progressive left-wing"
                   => result.value.political_bias =
                          IF RGt(score, Rat(7, 10)) THEN "left" ELSE "center_left"
            /\ label = "conservative right-wing"
                   => result.value.political_bias =
                          IF RGt(score, Rat(7, 10)) THEN "right" ELSE "center_right"
            /\ label = "moderate centrist" => result.value.political_bias = "center"

C18_Witness ==
    /\ AnalyzeReturned
    /\ call.text.zero_shot.labels[1] = "conservative right-wing"
    /\ call.text.zero_shot.scores[1] = Rat(7, 10)
    /\ result.value.political_bias = "center_right"

\* C19: emotional_tones has exactly the six buckets, every value is in [0,1],
\* and the values sum to 1 or are all 0; they are all 0 exactly when the
\* classifier gave no score above 0 to a label that maps to a bucket.
C19_EmotionalTones ==
    AnalyzeReturned =>
        LET tones == result.value.emotional_tones
            items == call.text.emotion[1]
            silent == \A k \in DOMAIN tones.value : tones.value[k] = Zero
        IN  /\ DOMAIN tones.value = {"fear", "anger", "hope", "sadness", "joy", "neutral"}
            /\ Len(tones.keys) = 6
            /\ Range(tones.keys) = DOMAIN tones.value
            /\ \A k \in DOMAIN tones.value : InUnit(tones.value[k])
            /\ silent \/ RSumValues(DOMAIN tones.value, tones.value) = One
            /\ silent <=> \A i \in DOMAIN items :
                              Bucket(items[i].label) # "pass" => items[i].score = Zero

C19_Witness ==
    /\ AnalyzeReturned
    /\ \E i \in DOMAIN call.text.emotion[1] :
           /\ call.text.emotion[1][i].label = "surprise"
           /\ call.text.emotion[1][i].score = Rat(1, 10)
    /\ result.value.emotional_tones.value["hope"] = One

EvenlySpread(s) == \A u, v \in Range(s) : Count(s, u) = Count(s, v)

\* C21: source_diversity is the entropy of the source frequencies divided by
\* log2(min(number of distinct sources, 20)): 1.0 for a batch spread evenly
\* over 2 to 20 distinct sources, 0 for a batch with one distinct source.
C21_SourceDiversity ==
    (MetricsReturned /\ call.content_items # <<>>) =>
        LET sources == ItemSources(call.content_items)
            distinct == Cardinality(Range(sources))
        IN  /\ distinct = 1 => result.value.source_diversity = Zero
            /\ distinct >= 2 =>
                   result.value.source_diversity =
                       RDiv(Entropy(sources), Rat(Log2(Min(distinct, SourceCap)), 1))
            /\ (distinct >= 2 /\ EvenlySpread(sources)) =>
                   result.value.source_diversity = One

\* C22: on a non-empty batch, semantic_diversity is 0 when fewer than 2 items
\* carry a text and temporal_diversity is 0 when fewer than 2 items carry a
\* timestamp (none included); with 2 timestamps or more temporal_diversity is
\* (latest - earliest) / 7 days, clamped to [0,1].
C22_MissingDataIsZero ==
    (MetricsReturned /\ call.content_items # <<>>) =>
        LET texts == ItemTexts(call.content_items)
            timestamps == ItemTimestamps(call.content_items)
        IN  /\ Len(texts) < 2 => result.value.semantic_diversity = Zero
            /\ Len(timestamps) < 2 => result.value.temporal_diversity = Zero
            /\ Len(timestamps) >= 2 =>
                   result.value.temporal_diversity =
                       LET span == Rat(SeqMax(timestamps) - SeqMin(timestamps), MaxRange)
                       IN  IF RLt(span, Zero) THEN Zero ELSE RMin(One, span)

\* Equal thirds over the three stances.
EqualThirds == [favor |-> Rat(1, 3), against |-> Rat(1, 3), neutral |-> Rat(1, 3)]

\* C23: viewpoint_suppression is half the L1 distance between the observed
\* stance proportions and the expected distribution, capped at 1; with no
\* expected distribution the expected one is equal thirds, so balanced stances
\* give 0 and stances that are all the same give 2/3.
C23_ViewpointSuppression ==
    (DetectReturned /\ DetectNeedsEmbedding(call.content_texts)
                    /\ call.content_stances # <<>>) =>
        LET stances == call.content_stances
            expected == IF call.expected_stance_distribution.is_none
                        THEN EqualThirds ELSE call.expected_stance_distribution.dist
            distance == [k \in DOMAIN expected |->
                            RAbs(RSub(Rat(Count(stances, k), Len(stances)), expected[k]))]
            l1 == RAdd(distance["favor"], RAdd(distance["against"], distance["neutral"]))
        IN  /\ result.value.viewpoint_suppression = RMin(One, RDiv(l1, Rat(2, 1)))
            /\ (call.expected_stance_distribution.is_none
                    /\ \A k \in Stances : 3 * Count(stances, k) = Len(stances))
                   => result.value.viewpoint_suppression = Zero
            /\ (call.expected_stance_distribution.is_none
                    /\ \E k \in Stances : Count(stances, k) = Len(stances))
                   => result.value.viewpoint_suppression = Rat(2, 3)

\* min(1, max(0, x))
Clamp(x) == IF RLt(x, Zero) THEN Zero ELSE RMin(One, x)

\* C24: without stance labels, ideological_clustering is
\* clamp((within mean / between mean - 1) / 2, 0, 1), so never negative, and
\* 0.5 when the between-cluster mean similarity is 0.
C24_EstimatedClustering ==
    (DetectReturned /\ DetectNeedsEmbedding(call.content_texts)
                    /\ call.content_stances = <<>>) =>
        LET embeddings == Encode(call.content_texts)
            cluster_labels == cluster_content(embeddings)
            n == Len(embeddings)
            within == {p \in UpperPairs(n) : cluster_labels[p[1]] = cluster_labels[p[2]]}
            avg_within == MeanSimilarity(embeddings, within, Zero)
            avg_between == MeanSimilarity(embeddings, UpperPairs(n) \ within, Zero)
        IN  /\ RLe(Zero, result.value.ideological_clustering)
            /\ avg_between = Zero => result.value.ideological_clustering = Half
            /\ avg_between # Zero =>
                   result.value.ideological_clustering =
                       Clamp(RDiv(RSub(RDiv(avg_within, avg_between), One), Rat(2, 1)))

\* C25: DiversityAnalyzer.compare_personas gives each persona the rank
\* index / count * 100, index being its position (from 0) in the ascending
\* order of echo_chamber_score: the lowest score has rank 0, every rank is
\* below 100, a strictly higher score has a strictly higher rank, and there
\* is one entry per persona.
C25_PercentileRank ==
    (CompareReturned /\ call.persona_metrics # <<>>) =>
        LET pm == call.persona_metrics
            n == Len(pm)
            score(i) == pm[i].metrics.echo_chamber_score
            rank(i) == result.value[pm[i].persona_id].percentile_rank.echo_chamber
        IN  /\ DOMAIN result.value = {pm[i].persona_id : i \in DOMAIN pm}
            /\ Cardinality(DOMAIN result.value) = n
            /\ {rank(i) : i \in DOMAIN pm} = {Rat(k * 100, n) : k \in 0..(n - 1)}
            /\ \A i \in DOMAIN pm : RLt(rank(i), Rat(100, 1))
            /\ \A i \in DOMAIN pm :
                   rank(i) = Zero => \A j \in DOMAIN pm : RLe(score(i), score(j))
            /\ \A i, j \in DOMAIN pm : RLt(score(i), score(j)) => RLt(rank(i), rank(j))

\* Three personas with three different scores, supplied in descending order.
C25_Witness ==
    /\ CompareReturned
    /\ Len(call.persona_metrics) = 3
    /\ RGt(call.persona_metrics[1].metrics.echo_chamber_score,
           call.persona_metrics[2].metrics.echo_chamber_score)
    /\ RGt(call.persona_metrics[2].metrics.echo_chamber_score,
           call.persona_metrics[3].metrics.echo_chamber_score)
    /\ result.value["p3"].percentile_rank.echo_chamber = Zero
    /\ result.value["p1"].percentile_rank.echo_chamber = Rat(200, 3)

CompareResultsReturned ==
    call.op = "compare_persona_results" /\ result.status = "returned"

\* C26: EchoChamberDetector.compare_personas ranks the personas by descending
\* echo_chamber_score: the ranks are 1..n, each once; a strictly higher score
\* has a strictly smaller rank; delta_from_average is the score minus the mean
\* score, so the deltas sum to 0; severity, score and is_echo_chamber are those
\* of the persona's input result.
C26_RanksByDescendingScore ==
    (CompareResultsReturned /\ call.persona_results # <<>>) =>
        LET pr == call.persona_results
            n == Len(pr)
            out(i) == result.value[pr[i].persona_id]
            mean == RDiv(RSumSet(DOMAIN pr, [i \in DOMAIN pr |->
                                                pr[i].result.echo_chamber_score]),
                         Rat(n, 1))
        IN  /\ DOMAIN result.value = {pr[i].persona_id : i \in DOMAIN pr}
            /\ {out(i).rank : i \in DOMAIN pr} = 1..n
            /\ \A i, j \in DOMAIN pr :
                   RGt(pr[i].result.echo_chamber_score, pr[j].result.echo_chamber_score)
                       => out(i).rank < out(j).rank
            /\ \A i \in DOMAIN pr :
                   /\ out(i).delta_from_average =
                          RSub(pr[i].result.echo_chamber_score, mean)
                   /\ out(i).echo_chamber_score = pr[i].result.echo_chamber_score
                   /\ out(i).severity = pr[i].result.severity
                   /\ out(i).is_echo_chamber = pr[i].result.is_echo_chamber
            /\ RSumSet(DOMAIN pr, [i \in DOMAIN pr |-> out(i).delta_from_average]) = Zero

\* Three personas with three different scores, supplied in ascending order.
C26_Witness ==
    /\ CompareResultsReturned
    /\ Len(call.persona_results) = 3
    /\ RLt(call.persona_results[1].result.echo_chamber_score,
           call.persona_results[2].result.echo_chamber_score)
    /\ RLt(call.persona_results[2].result.echo_chamber_score,
           call.persona_results[3].result.echo_chamber_score)
    /\ result.value["p3"].rank = 1
    /\ result.value["p1"].rank = 3
    /\ result.value["p1"].delta_from_average # Zero

\* C27: in every EchoChamberResult detect returns, is_echo_chamber holds
\* exactly when severity is "high" or "severe".
C27_VerdictMatchesSeverity ==
    DetectReturned =>
        (result.value.is_echo_chamber <=> result.value.severity \in {"high", "severe"})

\* A result of severity "medium", which is not flagged, from a clustering.
C27_Witness ==
    /\ DetectReturned
    /\ DetectNeedsEmbedding(call.content_texts)
    /\ result.value.severity = "medium"
    /\ ~result.value.is_echo_chamber

\* C28: for detect on 5 texts or more with a score in [0,1], confidence is at
\* least 0.8 when is_echo_chamber holds and above 0.4 when it does not, so at
\* least 0.4; a confidence of 0 comes only from the guard for fewer than 5
\* texts.
C28_ConfidenceFloor ==
    DetectReturned =>
        /\ (DetectNeedsEmbedding(call.content_texts)
                /\ InUnit(result.value.echo_chamber_score)) =>
               /\ RGe(result.value.confidence, Rat(4, 10))
               /\ result.value.is_echo_chamber => RGe(result.value.confidence, Rat(8, 10))
               /\ ~result.value.is_echo_chamber => RGt(result.value.confidence, Rat(4, 10))
        /\ result.value.confidence = Zero => ~DetectNeedsEmbedding(call.content_texts)

\* An echo chamber at the score 0.6, whose confidence is 0.8.
C28_Witness ==
    /\ DetectReturned
    /\ DetectNeedsEmbedding(call.content_texts)
    /\ result.value.is_echo_chamber
    /\ result.value.echo_chamber_score = Rat(6, 10)
    /\ result.value.confidence = Rat(8, 10)

\* C29: in every state of a RateLimiter, from construction on, tokens is at
\* least 0 and at most max_tokens: burst_limit when one is configured,
\* requests_per_minute otherwise.
C29_TokensWithinBucket ==
    rate_limiter.constructed =>
        /\ RLe(Zero, rate_limiter.tokens)
        /\ RLe(rate_limiter.tokens,
               Rat(IF rate_limiter.config.burst_limit # None
                   THEN rate_limiter.config.burst_limit
                   ELSE rate_limiter.config.requests_per_minute, 1))

\* C30: for a RateLimiter with a daily_quota, under every interleaving of the
\* tasks calling acquire, daily_used and the number of calls granted since the
\* last daily reset never exceed daily_quota.
C30_DailyQuotaRespected ==
    (rate_limiter.constructed /\ rate_limiter.config.daily_quota # None) =>
        /\ rate_limiter.daily_used <= rate_limiter.config.daily_quota
        /\ rate_limiter.granted <= rate_limiter.config.daily_quota

====
